---- MODULE Spec2Model ----
(***************************************************************************)
(* GSFLOW arcpy tools: the fishnet generator (fishnet_generator.py) and    *)
(* the DEM parameter run (dem_parameters.py) as state machines over the    *)
(* polygon cell table, the scratch rasters and the position of the run.    *)
(*                                                                         *)
(* Numbers.  Every DOUBLE of the scripts is an exact rational <<n, d>>     *)
(* with d > 0 and gcd(n, d) = 1, so that 3.28084, 0.005 and the quotient   *)
(* dem_sum / dem_count are computed, not abstracted.  Rounding of IEEE     *)
(* doubles is not modelled.  Coordinates of the fishnet are integers in    *)
(* map units.                                                              *)
(***************************************************************************)
EXTENDS Integers, Sequences, FiniteSets, TLC

(***************************************************************************)
(* Bounds of the model.                                                    *)
(***************************************************************************)
NumCells == 2
NumPix == 2
MaxElev == 2
MaxRuns == 2
MaxCoord == 2
MaxCellSize == 3
MaxBufferCells == 1

Cells == 1..NumCells
Pixels == 1..NumPix

(***************************************************************************)
(* Program constants.                                                      *)
(***************************************************************************)
NumMonths == 12
Months == 1..NumMonths
JulyMonth == 7
DefaultTmax == 25
DefaultTmin == 7
LakeType == 2
OceanType == 0
LandType == 1
AssumedMaxElevation == 100

\* import statements of dem_parameters.py: the names bound in the module
ImportedModules ==
    {"argparse", "ConfigParser", "datetime", "logging", "os", "sys",
     "arcpy", "support_functions"}

\* a unit of angle let through
linear_unit_list_with_degree == {"METER", "FOOT_US", "FOOT", "DEGREE"}

linear_unit_list == {"METER", "FOOT_US", "FOOT"}
dem_proj_method_list == {"BILINEAR", "CUBIC", "NEAREST"}

(***************************************************************************)
(* Exact rationals.                                                        *)
(***************************************************************************)
Abs(n) == IF n < 0 THEN -n ELSE n

RECURSIVE GCD(_, _)
GCD(a, b) == IF b = 0 THEN a ELSE GCD(b, a % b)

Rat(n, d) ==
    LET s == IF d < 0 THEN -1 ELSE 1
        g == GCD(Abs(n), Abs(d))
    IN  <<(s * n) \div g, (s * d) \div g>>

R(n) == <<n, 1>>
Zero == R(0)
RMul(a, b) == Rat(a[1] * b[1], a[2] * b[2])
RDiv(a, b) == Rat(a[1] * b[2], a[2] * b[1])
RAdd(a, b) == Rat(a[1] * b[2] + b[1] * a[2], a[2] * b[2])
RSub(a, b) == Rat(a[1] * b[2] - b[1] * a[2], a[2] * b[2])
RLess(a, b) == a[1] * b[2] < b[1] * a[2]
RLeq(a, b) == a[1] * b[2] <= b[1] * a[2]
RMin(a, b) == IF RLess(b, a) THEN b ELSE a
RMax(a, b) == IF RLess(a, b) THEN b ELSE a

RECURSIVE RSum(_, _)
RSum(f, S) ==
    IF S = {} THEN Zero
    ELSE LET x == CHOOSE y \in S : TRUE IN RAdd(f[x], RSum(f, S \ {x}))

RMaxOf(f, S) == CHOOSE v \in {f[x] : x \in S} : \A x \in S : RLeq(f[x], v)
RMinOf(f, S) == CHOOSE v \in {f[x] : x \in S} : \A x \in S : RLeq(v, f[x])

FeetPerMeter == Rat(328084, 100000)
SnareaScale == Rat(5, 1000)
TenthScale == Rat(1, 10)

(***************************************************************************)
(* State.                                                                  *)
(***************************************************************************)
VARIABLES
    pc,                     \* position of the dem_parameters run
    runs,                   \* runs of dem_parameters started so far
    cfg,                    \* inputs_cfg: the INPUTS section read by the run
    world,                  \* files the run finds: DEM, remap folder, points
    hru,                    \* support.HRUParameters: cs, ref_x, ref_y, ...
    study_area_extent,      \* extent of the study area polygon
    hru_extent,             \* hru.extent handed to build_fishnet_func
    polygon_exists,         \* arcpy.Exists(hru.polygon_path)
    fields,                 \* fields of the polygon cell table
    table,                  \* the polygon cell table, one row per cell
    rasters,                \* scratch rasters in dem_temp_ws, by file name
    flow_acc_dem_factor,    \* local of dem_parameters
    linear_unit,            \* local of dem_parameters
    calc_prism_jh_coef_flag,\* local of dem_parameters (rebound at line 475)
    error,                  \* how the run ended, "" while it has not failed
    adj0,                   \* dem_adj of every cell when the run started
    soil_rasters,           \* projected soil rasters in soil_temp_ws, by name
    soil_error,             \* how the last soil_raster_prep run ended
    soil_cfg,               \* the INPUTS section read by that run
    soil_world,             \* the source rasters that run found
    written,                \* scratch rasters the run has saved so far
    reads,                  \* scratch rasters the last raster step opened
    prev                    \* the table, its fields and the rasters the run
                            \* started from, whether the run before
                            \* completed and had the same inputs

vars ==
    <<pc, runs, cfg, world, hru, study_area_extent, hru_extent,
      polygon_exists, fields, table, rasters, flow_acc_dem_factor,
      linear_unit, calc_prism_jh_coef_flag, error, adj0, prev,
      soil_rasters, soil_error, soil_cfg, soil_world, written, reads>>

run_vars ==
    <<pc, runs, cfg, world, fields, table, rasters, flow_acc_dem_factor,
      linear_unit, calc_prism_jh_coef_flag, error, adj0, prev, written,
      reads>>

fishnet_vars == <<hru, study_area_extent, hru_extent, polygon_exists>>

soil_vars == <<soil_rasters, soil_error, soil_cfg, soil_world>>

\* a missing flow_acc_dem_factor option, and an unbound local
NoFactor == <<0, 0>>
NoRaster == [c \in Cells |-> [p \in Pixels |-> <<0, 0>>]]

(***************************************************************************)
(* The polygon cell table.                                                 *)
(***************************************************************************)
DemFields ==
    {"dem_mean", "dem_median", "dem_max", "dem_min", "dem_adj",
     "dem_sink8", "dem_sink4", "dem_aspect", "dem_slope_deg",
     "dem_slope_rad", "dem_slope_pct", "dem_feet", "jh_tmin", "jh_tmax",
     "jh_coef", "snarea_thresh", "tmax_adj", "tmin_adj"}

FlowAccFields == {"dem_flowacc", "dem_sum", "dem_count"}

\* fields other scripts of the repository put in the table
TypeField == "hru_type"
PrismFields == {"TMAX", "TMIN"}

\* uninterpreted results of the closed-form functions of support_functions
NoJH == <<"zero", Zero, Zero, Zero>>
NoTan == <<"tan", Zero>>

FreshRow(type, tmax, tmin) ==
    [hru_type |-> type,
     tmax |-> tmax, tmin |-> tmin,
     dem_mean |-> Zero, dem_max |-> Zero, dem_min |-> Zero,
     dem_adj |-> Zero, dem_flowacc |-> Zero, dem_sum |-> Zero,
     dem_count |-> Zero, dem_aspect |-> Zero, dem_slope_deg |-> Zero,
     dem_slope_rad |-> Zero, dem_slope_pct |-> NoTan, dem_feet |-> Zero,
     jh_tmin |-> Zero, jh_tmax |-> Zero, jh_coef |-> NoJH,
     snarea_thresh |-> Zero, tmax_adj |-> Zero, tmin_adj |-> Zero]

\* the value CalculateField reads for '!name!'
FieldValue(row, name) ==
    CASE name = "dem_mean" -> row.dem_mean
      [] name = "dem_max" -> row.dem_max
      [] name = "dem_min" -> row.dem_min
      [] name = "dem_adj" -> row.dem_adj
      [] name = "dem_feet" -> row.dem_feet
      [] name = "dem_flowacc" -> row.dem_flowacc
      [] OTHER -> Zero

\* CalculateField_management over every row, or over the selected rows;
\* new[c] is the row the expression gives for row c
CalculateField(tbl, sel, new) ==
    [c \in Cells |-> IF c \in sel THEN new[c] ELSE tbl[c]]

\* SelectLayerByAttribute_management NEW_SELECTION; where[c] is the value of
\* the where clause for row c
SelectLayerByAttribute(tbl, where) == {c \in Cells : where[c]}

(***************************************************************************)
(* Monthly PRISM temperatures of a cell, as the table may hold them.       *)
(***************************************************************************)
ZeroTemps == [m \in Months |-> 0]

\* tmax peaks (value 2) in months p1 and p2, 1 in July otherwise
PeakTmax(p1, p2) ==
    [m \in Months |-> IF m \in {p1, p2} THEN 2 ELSE IF m = JulyMonth THEN 1 ELSE 0]
PeakTmin(p1, p2, t1, t2) ==
    [m \in Months |-> IF m = p1 THEN t1 ELSE IF m = p2 THEN t2 ELSE 0]

\* a peak in January and nothing in July
AustralTmax == [m \in Months |-> IF m = 1 THEN 2 ELSE 0]
\* below zero all year, warmest in July
ColdTmax == [m \in Months |-> IF m = JulyMonth THEN -1 ELSE -2]

PeakMonths == {6, 8}
PeakTmins == {-1, 1}

TempProfiles ==
    {<<ZeroTemps, ZeroTemps>>, <<AustralTmax, ZeroTemps>>,
     <<ColdTmax, [m \in Months |-> -3]>>}
    \cup {<<PeakTmax(p1, p2), PeakTmin(p1, p2, t1, t2)>> :
            p1 \in PeakMonths, p2 \in PeakMonths, t1 \in PeakTmins, t2 \in PeakTmins}

(***************************************************************************)
(* The raster engine (arcpy.sa) and the helpers of support_functions.      *)
(* A scene gives, for every DEM pixel of every cell, the elevation of the  *)
(* source DEM and what the engine derives from that DEM: the low-pass      *)
(* filtered flow accumulation, the slope (hundredths of a degree) and the  *)
(* aspect (degrees).                                                       *)
(***************************************************************************)
Pix(e, f, s, a) == [elev |-> e, facc |-> f, slope |-> s, aspect |-> a]

\* a flat cell at elevation e that receives flow
UniformCell(e) == [p \in Pixels |-> Pix(e, 1, 0, 0)]
\* a sloping cell: elevation, accumulation and slope grow with the pixel
RampCell == [p \in Pixels |-> Pix(p % (MaxElev + 1), p - 1, p, 90 * p)]
\* a cell no flow reaches
DryCell == [p \in Pixels |-> Pix(1, 0, 2, 180)]

CellScenes == {UniformCell(e) : e \in 0..MaxElev} \cup {RampCell, DryCell}

PixelRaster(scene, band) ==
    [c \in Cells |-> [p \in Pixels |-> R(scene[c][p][band])]]
RasterTimes(r, q) ==
    [c \in Cells |-> [p \in Pixels |-> RMul(r[c][p], q[c][p])]]
RasterScale(r, k) == [c \in Cells |-> [p \in Pixels |-> RMul(r[c][p], k)]]

\* raster < number
RasterLess(r, k) == [c \in Cells |-> [p \in Pixels |-> RLess(r[c][p], k)]]

\* raster <= number and raster > number, rasters of truth values
RasterLeq(r, k) == [c \in Cells |-> [p \in Pixels |-> RLeq(r[c][p], k)]]
RasterGreater(r, k) == [c \in Cells |-> [p \in Pixels |-> RLess(k, r[c][p])]]
\* Int(raster): truncation
RasterInt(r) ==
    [c \in Cells |-> [p \in Pixels |-> R(r[c][p][1] \div r[c][p][2])]]
Con(cond, a, b) ==
    [c \in Cells |-> [p \in Pixels |->
        IF cond[c][p] THEN a[c][p] ELSE b[c][p]]]
ConstRaster(k) == [c \in Cells |-> [p \in Pixels |-> k]]

\* sample remap tables: aspect in degrees to a class, a class to tenths
AspectRemap(a) == IF RLess(a, Zero) THEN Zero ELSE R((a[1] \div a[2]) \div 90 + 1)
TempAdjRemap(k) == RSub(k, R(2))
\* Reclassify with the remap file of the aspect, of the temperature
ReclassAspect(r) == [c \in Cells |-> [p \in Pixels |-> AspectRemap(r[c][p])]]
ReclassTempAdj(r) == [c \in Cells |-> [p \in Pixels |-> TempAdjRemap(r[c][p])]]

\* zonal statistics of one cell
ZonalMean(r, c) == RDiv(RSum(r[c], Pixels), R(NumPix))
ZonalSum(r, c) == RSum(r[c], Pixels)
ZonalMax(r, c) == RMaxOf(r[c], Pixels)
ZonalMin(r, c) == RMinOf(r[c], Pixels)
ZonalMajority(r, c) ==
    LET n(v) == Cardinality({p \in Pixels : r[c][p] = v})
        vals == {r[c][p] : p \in Pixels}
        top == {v \in vals : \A w \in vals : n(w) <= n(v)}
    IN  CHOOSE v \in top : \A w \in top : RLeq(v, w)

\* support.jensen_haise_func: a closed form of (elevation, tmin, tmax)
jensen_haise_func(dem_feet, jh_tmin, jh_tmax) ==
    <<"jh", dem_feet, jh_tmin, jh_tmax>>

\* support.field_stat_func over every row, vals[c] the field's value in row c
field_stat_max(vals) ==
    CHOOSE x \in {vals[c] : c \in Cells} : \A c \in Cells : RLeq(vals[c], x)
field_stat_min(vals) ==
    CHOOSE x \in {vals[c] : c \in Cells} : \A c \in Cells : RLeq(x, vals[c])

NoRasters ==
    [dem |-> NoRaster, dem_fill |-> NoRaster, flow_dir |-> NoRaster,
     flow_acc |-> NoRaster, flow_acc_filter |-> NoRaster,
     flow_acc_x_dem |-> NoRaster, dem_integer |-> NoRaster,
     dem_slope |-> NoRaster, dem_aspect |-> NoRaster,
     aspect_reclass |-> NoRaster, temp_adj |-> NoRaster]

(***************************************************************************)
(* dem_parameters, lines 23-116: the configuration and the scale factor.   *)
(***************************************************************************)
\* what no step of a run changes, and what no step but a raster step does
env ==
    <<runs, cfg, world, adj0, prev, hru, study_area_extent, hru_extent,
      polygon_exists, soil_vars>>
fixed == <<env, written, reads>>

Fail(reason) == pc' = "failed" /\ error' = reason
Goto(label) == pc' = label /\ error' = error

\* lines 36-74 and 113-116: a new process reads the configuration
StartRun(c, w) ==
    /\ pc \in {"idle", "done", "failed"}
    /\ runs < MaxRuns
    /\ runs' = runs + 1
    /\ cfg' = c
    /\ world' = w
    /\ flow_acc_dem_factor' = NoFactor
    /\ linear_unit' = ""
    /\ calc_prism_jh_coef_flag' = c.calc_prism_jh_coef_flag
    /\ adj0' = [x \in Cells |-> table[x].dem_adj]
    /\ prev' = [table |-> table, fields |-> fields, rasters |-> rasters,
                completed |-> (pc = "done"),
                same_inputs |-> (c = cfg /\ w = world)]
    /\ written' = {}
    /\ reads' = {}
    /\ pc' = "factor"
    /\ error' = ""
    /\ UNCHANGED <<fields, table, rasters, hru, study_area_extent,
                   hru_extent, polygon_exists, soil_vars>>

\* lines 75-80: the configured factor, if the option is there and a float
ReadFactor ==
    /\ pc = "factor"
    /\ IF ~cfg.calc_flow_acc_dem_flag
       THEN Goto("check_inputs") /\ UNCHANGED flow_acc_dem_factor
       ELSE IF cfg.flow_acc_dem_factor # NoFactor
       THEN Goto("check_inputs")
            /\ flow_acc_dem_factor' = cfg.flow_acc_dem_factor
       ELSE Goto("estimate") /\ UNCHANGED flow_acc_dem_factor
    /\ UNCHANGED <<fixed, fields, table, rasters, linear_unit,
                   calc_prism_jh_coef_flag>>

\* lines 83-92: cells x (hru.cs / dem_cs)^2 x 100 / (0.5 x 2^32); the two
\* divisions by a power of two are the one division by 2^31
WorstCaseRatio(point_count, hru_cs, dem_cs) ==
    LET q == RDiv(R(hru_cs), R(dem_cs))
        a == RDiv(R(point_count), R(65536))
        b == RMul(a, RMul(q, q))
        c == RMul(b, R(AssumedMaxElevation))
    IN  RDiv(c, R(32768))

\* line 94
CapRatio(r) == RMin(Rat(1, 10), r)

\* lines 83-94 (the except branch up to the rounding)
EstimateRatio ==
    /\ pc = "estimate"
    /\ IF cfg.dem_cs = 0
       THEN Fail("ZeroDivisionError") /\ UNCHANGED flow_acc_dem_factor
       ELSE /\ Goto("round")
            /\ flow_acc_dem_factor' =
                 CapRatio(WorstCaseRatio(world.point_count, hru.cs, cfg.dem_cs))
    /\ UNCHANGED <<fixed, fields, table, rasters, linear_unit,
                   calc_prism_jh_coef_flag>>

\* int(math.log10(r)) for 0 < r <= 1/10: int() truncates towards zero, so
\* this is -j for the largest j with 10^j x r <= 1
RECURSIVE NegIntLog10(_)
NegIntLog10(r) ==
    IF RLeq(RMul(r, R(10)), R(1)) THEN 1 + NegIntLog10(RMul(r, R(10))) ELSE 0

RECURSIVE Pow10(_)
Pow10(k) == IF k <= 0 THEN 1 ELSE 10 * Pow10(k - 1)

\* line 96: 1.0 / 10 ** (int(math.log10(r)) + 1)
RoundFactor(r) == R(Pow10(NegIntLog10(r) - 1))

\* line 96: the name math is looked up first
EstimateRound ==
    /\ pc = "round"
    /\ IF "math" \notin ImportedModules
       THEN Fail("NameError") /\ UNCHANGED flow_acc_dem_factor
       ELSE IF ~RLess(Zero, flow_acc_dem_factor)
       THEN Fail("ValueError") /\ UNCHANGED flow_acc_dem_factor
       ELSE /\ Goto("check_inputs")
            /\ flow_acc_dem_factor' = RoundFactor(flow_acc_dem_factor)
    /\ UNCHANGED <<fixed, fields, table, rasters, linear_unit,
                   calc_prism_jh_coef_flag>>

\* lines 118-176
CheckInputs ==
    /\ pc = "check_inputs"
    /\ IF ~polygon_exists THEN Fail("fishnet does not exist")
       ELSE IF ~world.dem_exists THEN Fail("DEM raster does not exist")
       ELSE IF ~world.remap_exists THEN Fail("remap folder does not exist")
       ELSE IF cfg.dem_cs <= 0 THEN Fail("DEM cellsize must be greater than 0")
       ELSE IF cfg.dem_projection_method \notin dem_proj_method_list
       THEN Fail("DEM projection method")
       ELSE Goto("add_fields")
    /\ UNCHANGED <<fixed, fields, table, rasters, flow_acc_dem_factor,
                   linear_unit, calc_prism_jh_coef_flag>>

\* lines 207-231: support.add_field_func adds the fields that are missing
AddFields ==
    /\ pc = "add_fields"
    /\ fields' = fields \cup DemFields
                 \cup (IF cfg.calc_flow_acc_dem_flag THEN FlowAccFields ELSE {})
    /\ Goto("check_copy_field")
    /\ UNCHANGED <<fixed, table, rasters, flow_acc_dem_factor, linear_unit,
                   calc_prism_jh_coef_flag>>

\* lines 233-237
CheckCopyField ==
    /\ pc = "check_copy_field"
    /\ IF cfg.dem_adj_copy_field \notin fields
       THEN Fail("dem_adj_copy_field does not exist")
       ELSE Goto("project")
    /\ UNCHANGED <<fixed, fields, table, rasters, flow_acc_dem_factor,
                   linear_unit, calc_prism_jh_coef_flag>>

\* lines 250-269: dem.img, the source DEM on the grid of the cells
ProjectDem ==
    /\ pc = "project"
    /\ rasters' = [rasters EXCEPT
                     !.dem = PixelRaster(world.scene, "elev")]
    /\ written' = written \cup {"dem"}
    /\ reads' = {}
    /\ Goto("check_unit")
    /\ UNCHANGED <<env, fields, table, flow_acc_dem_factor, linear_unit,
                   calc_prism_jh_coef_flag>>

\* lines 278-288
CheckUnit ==
    /\ pc = "check_unit"
    /\ linear_unit' = world.linear_unit
    /\ IF world.linear_unit \notin linear_unit_list
       THEN Fail("linear unit must be meters or feet")
       ELSE Goto("derive")
    /\ UNCHANGED <<fixed, fields, table, rasters, flow_acc_dem_factor,
                   calc_prism_jh_coef_flag>>

(***************************************************************************)
(* dem_parameters, lines 290-382: the scratch rasters and the zonal        *)
(* statistics.                                                             *)
(***************************************************************************)
SlopeClampLimit == Rat(1, 100)

\* lines 106-111: the two flags follow calc_flow_acc_dem_flag
calc_flow_dir_flag_never(calc_flow_acc_dem_flag) == FALSE

calc_flow_dir_flag(calc_flow_acc_dem_flag) == calc_flow_acc_dem_flag
calc_flow_acc_flag(calc_flow_acc_dem_flag) == calc_flow_acc_dem_flag

\* The raster objects of lines 290-360, each from the files r it opens; the
\* engine's flow routing, slope and aspect of the DEM are those of the scene.
\* line 292: Fill(dem_path)
dem_fill_obj(r) == r.dem
\* line 297-298: FlowDirection(Raster(dem_fill_path), True)
flow_dir_obj(r, scene) == PixelRaster(scene, "facc")
\* lines 303-304: FlowAccumulation(Raster(flow_dir_path))
flow_acc_obj(r) == r.flow_dir
\* lines 310-312: Filter(Raster(flow_acc_path), 'LOW', 'NODATA') * factor
flow_acc_filter_obj(r, factor) == RasterScale(r.flow_acc, factor)
\* the filled DEM times the filter before its scaling
flow_acc_dem_unscaled(r, factor) == RasterTimes(r.dem_fill, r.flow_acc)

\* line 314: Raster(dem_fill_path) * flow_acc_filter_obj
flow_acc_dem_obj(r, factor) ==
    RasterTimes(r.dem_fill, flow_acc_filter_obj(r, factor))
\* line 319: Int(Raster(dem_path) * 100)
dem_integer_obj(r) == RasterInt(RasterScale(r.dem, R(100)))
\* lines 325-328: Slope(dem_fill_path, 'DEGREE'), small slopes set to 0
dem_slope_obj(r, scene) ==
    LET slope0 == RasterScale(PixelRaster(scene, "slope"), Rat(1, 100))
    IN  Con(RasterLeq(slope0, SlopeClampLimit), ConstRaster(Zero), slope0)
\* lines 334-338: Aspect(dem_fill_path), -1 where Raster(dem_slope_path)
\* is not above 0.01
dem_aspect_obj(r, scene) ==
    Con(RasterGreater(r.dem_slope, SlopeClampLimit),
        PixelRaster(scene, "aspect"), ConstRaster(R(-1)))
\* lines 344-345: ReclassByASCIIFile(dem_aspect_path, aspect_remap_path)
dem_aspect_reclass_obj(r) == ReclassAspect(r.dem_aspect)
\* lines 351-356: the reclassified tenths, times 0.1
temp_adj_obj(r) == RasterScale(ReclassTempAdj(r.aspect_reclass), TenthScale)

\* lines 290-360, in the order of the code
DerivedRasters(r0, scene, flow_flag, factor) ==
    LET r1 == [r0 EXCEPT !.dem_fill = dem_fill_obj(r0)]
        r2 == IF calc_flow_dir_flag(flow_flag)
              THEN [r1 EXCEPT !.flow_dir = flow_dir_obj(r1, scene)] ELSE r1
        r3 == IF calc_flow_acc_flag(flow_flag)
              THEN [r2 EXCEPT !.flow_acc = flow_acc_obj(r2)] ELSE r2
        r4 == IF flow_flag
              THEN [r3 EXCEPT
                      !.flow_acc_filter = flow_acc_filter_obj(r3, factor),
                      !.flow_acc_x_dem = flow_acc_dem_obj(r3, factor)]
              ELSE r3
        r5 == [r4 EXCEPT !.dem_integer = dem_integer_obj(r4)]
        r6 == [r5 EXCEPT !.dem_slope = dem_slope_obj(r5, scene)]
        r7 == [r6 EXCEPT !.dem_aspect = dem_aspect_obj(r6, scene)]
        r8 == [r7 EXCEPT !.aspect_reclass = dem_aspect_reclass_obj(r7)]
    IN  [r8 EXCEPT !.temp_adj = temp_adj_obj(r8)]

\* one block of lines 290-360: if it is to run (does), it opens the files
\* rd and saves the files wr, which gives the files r
RasterStep(label, next, does, rd, wr, r) ==
    /\ pc = label
    /\ rasters' = IF does THEN r ELSE rasters
    /\ reads' = IF does THEN rd ELSE {}
    /\ written' = IF does THEN written \cup wr ELSE written
    /\ Goto(next)
    /\ UNCHANGED <<env, fields, table, flow_acc_dem_factor, linear_unit,
                   calc_prism_jh_coef_flag>>

\* lines 291-294
FillDem ==
    RasterStep("derive", "flow_dir", TRUE, {"dem"}, {"dem_fill"},
               [rasters EXCEPT !.dem_fill = dem_fill_obj(rasters)])

\* lines 295-300
FlowDirection ==
    RasterStep("flow_dir", "flow_acc",
               calc_flow_dir_flag(cfg.calc_flow_acc_dem_flag),
               {"dem_fill"}, {"flow_dir"},
               [rasters EXCEPT !.flow_dir = flow_dir_obj(rasters, world.scene)])

\* lines 301-306
FlowAccumulation ==
    RasterStep("flow_acc", "flow_acc_dem",
               calc_flow_acc_flag(cfg.calc_flow_acc_dem_flag),
               {"flow_dir"}, {"flow_acc"},
               [rasters EXCEPT !.flow_acc = flow_acc_obj(rasters)])

\* lines 307-316
FlowAccDem ==
    RasterStep("flow_acc_dem", "dem_integer", cfg.calc_flow_acc_dem_flag,
               {"flow_acc", "dem_fill"}, {"flow_acc_filter", "flow_acc_x_dem"},
               [rasters EXCEPT
                  !.flow_acc_filter =
                      flow_acc_filter_obj(rasters, flow_acc_dem_factor),
                  !.flow_acc_x_dem =
                      flow_acc_dem_obj(rasters, flow_acc_dem_factor)])

\* lines 318-321
DemInteger ==
    RasterStep("dem_integer", "dem_slope", TRUE, {"dem"}, {"dem_integer"},
               [rasters EXCEPT !.dem_integer = dem_integer_obj(rasters)])

\* lines 323-330
Slope ==
    RasterStep("dem_slope", "dem_aspect", TRUE, {"dem_fill"}, {"dem_slope"},
               [rasters EXCEPT
                  !.dem_slope = dem_slope_obj(rasters, world.scene)])

\* lines 332-340
Aspect ==
    RasterStep("dem_aspect", "aspect_reclass", TRUE,
               {"dem_fill", "dem_slope"}, {"dem_aspect"},
               [rasters EXCEPT
                  !.dem_aspect = dem_aspect_obj(rasters, world.scene)])

\* lines 342-347
ReclassifyAspect ==
    RasterStep("aspect_reclass", "temp_adj", TRUE,
               {"dem_aspect"}, {"aspect_reclass"},
               [rasters EXCEPT
                  !.aspect_reclass = dem_aspect_reclass_obj(rasters)])

\* lines 349-360
TempAdj ==
    RasterStep("temp_adj", "zonal_stats", TRUE,
               {"aspect_reclass"}, {"temp_adj"},
               [rasters EXCEPT !.temp_adj = temp_adj_obj(rasters)])

DeriveRasters ==
    \/ FillDem
    \/ FlowDirection
    \/ FlowAccumulation
    \/ FlowAccDem
    \/ DemInteger
    \/ Slope
    \/ Aspect
    \/ ReclassifyAspect
    \/ TempAdj

\* lines 363-376: zs_dem_dict, as entries <<field, raster, statistic>>
zs_dem_dict(calc_flow_acc_dem_flag) ==
    {<<"dem_mean", "dem", "MEAN">>,
     <<"dem_max", "dem", "MAXIMUM">>,
     <<"dem_min", "dem", "MINIMUM">>,
     <<"dem_aspect", "aspect_reclass", "MAJORITY">>,
     <<"dem_slope_deg", "dem_slope", "MEAN">>,
     <<"tmax_adj", "temp_adj", "MEAN">>,
     <<"tmin_adj", "temp_adj", "MEAN">>}
    \cup IF calc_flow_acc_dem_flag
         THEN {<<"dem_sum", "flow_acc_x_dem", "SUM">>,
               <<"dem_count", "flow_acc_filter", "SUM">>}
         ELSE {}

ZonalStat(stat, r, c) ==
    CASE stat = "MEAN" -> ZonalMean(r, c)
      [] stat = "SUM" -> ZonalSum(r, c)
      [] stat = "MAXIMUM" -> ZonalMax(r, c)
      [] stat = "MINIMUM" -> ZonalMin(r, c)
      [] stat = "MAJORITY" -> ZonalMajority(r, c)

\* lines 379-382: support.zonal_stats_func fills the fields of zs_dem_dict
ZonalRow(row, c, r, flow_flag) ==
    LET zs == zs_dem_dict(flow_flag)
    IN  [f \in DOMAIN row |->
           IF \E e \in zs : e[1] = f
           THEN LET e == CHOOSE x \in zs : x[1] = f
                IN  ZonalStat(e[3], r[e[2]], c)
           ELSE row[f]]

ZonalStats ==
    /\ pc = "zonal_stats"
    /\ table' = [c \in Cells |->
                   ZonalRow(table[c], c, rasters, cfg.calc_flow_acc_dem_flag)]
    /\ reads' = {e[2] : e \in zs_dem_dict(cfg.calc_flow_acc_dem_flag)}
    /\ Goto("dem_feet")
    /\ UNCHANGED <<env, written, fields, rasters, flow_acc_dem_factor,
                   linear_unit, calc_prism_jh_coef_flag>>

(***************************************************************************)
(* dem_parameters, lines 391-551: the per-cell formulas.                   *)
(***************************************************************************)
\* line 394 and line 399
MetersUnits == {"METERS"}
FeetUnits == {"FOOT_US", "FOOT"}

\* lines 391-402
DemFeetRow(row, unit) ==
    IF unit \in MetersUnits
    THEN [row EXCEPT !.dem_feet = RMul(row.dem_adj, FeetPerMeter)]
    ELSE IF unit \in FeetUnits
    THEN [row EXCEPT !.dem_feet = row.dem_adj]
    ELSE row

CalcDemFeet ==
    /\ pc = "dem_feet"
    /\ table' = [c \in Cells |-> DemFeetRow(table[c], linear_unit)]
    /\ Goto("flowacc")
    /\ UNCHANGED <<fixed, fields, rasters, flow_acc_dem_factor, linear_unit,
                   calc_prism_jh_coef_flag>>

\* lines 411-418: the rows with dem_count > 0 get float(dem_sum) / dem_count
FlowAccRatio(tbl) ==
    CalculateField(tbl,
        SelectLayerByAttribute(tbl, [c \in Cells |-> LET row == tbl[c] IN
            RLess(Zero, row.dem_count)]),
        [c \in Cells |-> LET row == tbl[c] IN
            [row EXCEPT !.dem_flowacc = RDiv(row.dem_sum, row.dem_count)]])

\* the rows with a zero sum or count left as they are
FlowAccNoClear(tbl) == tbl

\* lines 419-425: the rows with a zero sum or count get 0
FlowAccClear(tbl) ==
    CalculateField(tbl,
        SelectLayerByAttribute(tbl,
            [c \in Cells |-> LET row == tbl[c] IN
                row.dem_count = Zero \/ row.dem_sum = Zero]),
        [c \in Cells |-> LET row == tbl[c] IN
            [row EXCEPT !.dem_flowacc = Zero]])

\* lines 405-426
CalcFlowAcc ==
    /\ pc = "flowacc"
    /\ table' = IF cfg.calc_flow_acc_dem_flag
                THEN FlowAccClear(FlowAccRatio(table))
                ELSE table
    /\ Goto("fill_dem_adj")
    /\ UNCHANGED <<fixed, fields, rasters, flow_acc_dem_factor, linear_unit,
                   calc_prism_jh_coef_flag>>

\* any() written for all()
DemAdjNotSetAny(tbl) == \E c \in Cells : tbl[c].dem_adj = Zero

\* line 431: all([row[0] == 0 for row in SearchCursor(dem_adj)])
DemAdjNotSet(tbl) == \A c \in Cells : tbl[c].dem_adj = Zero

\* the reset flag forgotten
FillsDemAdjNoReset(tbl, reset_flag) == DemAdjNotSet(tbl)

\* lines 430-447: the condition under which dem_adj is filled
FillsDemAdj(tbl, reset_flag) == DemAdjNotSet(tbl) \/ reset_flag

\* lines 435-437 and 441-443: float(!dem_adj_copy_field!)
CopyDemAdj(tbl, copy_field) ==
    CalculateField(tbl, Cells,
        [c \in Cells |-> LET row == tbl[c] IN
            [row EXCEPT !.dem_adj = FieldValue(row, copy_field)]])

FillDemAdj ==
    /\ pc = "fill_dem_adj"
    /\ table' = IF FillsDemAdj(table, cfg.reset_dem_adj_flag)
                THEN CopyDemAdj(table, cfg.dem_adj_copy_field)
                ELSE table
    /\ Goto("slope")
    /\ UNCHANGED <<fixed, fields, rasters, flow_acc_dem_factor, linear_unit,
                   calc_prism_jh_coef_flag>>

\* lines 449-460: radians as a multiple of pi, tan() uninterpreted
SlopeRow(row) ==
    LET rad == RDiv(row.dem_slope_deg, R(180))
    IN  [row EXCEPT !.dem_slope_rad = rad, !.dem_slope_pct = <<"tan", rad>>]

CalcSlope ==
    /\ pc = "slope"
    /\ table' = [c \in Cells |-> SlopeRow(table[c])]
    /\ Goto("jh_temps")
    /\ UNCHANGED <<fixed, fields, rasters, flow_acc_dem_factor, linear_unit,
                   calc_prism_jh_coef_flag>>

\* the test of the July maximum left out
UsesPrismNoZeroTest(flag, flds, tbl) == flag /\ "TMAX" \in flds

\* lines 472-475: the observed temperatures are used only if the flag is
\* set, TMAX_07 exists and its maximum over the rows is not 0
UsesPrism(flag, flds, tbl) ==
    flag /\ ~("TMAX" \notin flds
              \/ field_stat_max([c \in Cells |-> R(tbl[c].tmax[JulyMonth])]) = Zero)

\* line 481: max([!TMAX_01!, ..., !TMAX_12!])
TmaxExpr(row) ==
    CHOOSE v \in {row.tmax[m] : m \in Months} : \A m \in Months : row.tmax[m] <= v

\* the TMIN of the first month that has the maximum TMAX
TminExprFirstMonth(row) ==
    LET first == CHOOSE m \in Months :
                     /\ row.tmax[m] = TmaxExpr(row)
                     /\ \A k \in Months : row.tmax[k] = TmaxExpr(row) => m <= k
    IN  row.tmin[first]

\* line 485: max(zip([TMAX...], [TMIN...]))[1], the maximum of the pairs in
\* the order of Python tuples
TminExpr(row) ==
    LET pairs == {<<row.tmax[m], row.tmin[m]>> : m \in Months}
        top == CHOOSE q \in pairs : \A r \in pairs :
                   r[1] < q[1] \/ (r[1] = q[1] /\ r[2] <= q[2])
    IN  top[2]

\* lines 468-495
CalcJHTemps ==
    /\ pc = "jh_temps"
    /\ calc_prism_jh_coef_flag' = UsesPrism(calc_prism_jh_coef_flag, fields, table)
    /\ IF calc_prism_jh_coef_flag'
       THEN IF "TMIN" \notin fields
            THEN /\ Fail("ExecuteError")
                 /\ table' = CalculateField(table, Cells,
                       [c \in Cells |-> LET row == table[c] IN
                           [row EXCEPT !.jh_tmax = R(TmaxExpr(row))]])
            ELSE /\ Goto("jh_coef")
                 /\ table' = CalculateField(table, Cells,
                       [c \in Cells |-> LET row == table[c] IN
                           [row EXCEPT !.jh_tmax = R(TmaxExpr(row)),
                                       !.jh_tmin = R(TminExpr(row))]])
       ELSE /\ Goto("jh_coef")
            /\ table' = CalculateField(table, Cells,
                  [c \in Cells |-> LET row == table[c] IN
                      [row EXCEPT !.jh_tmax = R(DefaultTmax),
                                           !.jh_tmin = R(DefaultTmin)]])
    /\ UNCHANGED <<fixed, fields, rasters, flow_acc_dem_factor, linear_unit>>

\* lines 496-498
CalcJHCoef ==
    /\ pc = "jh_coef"
    /\ table' = CalculateField(table, Cells,
          [c \in Cells |-> LET row == table[c] IN [row EXCEPT !.jh_coef =
              jensen_haise_func(row.dem_feet, row.jh_tmin, row.jh_tmax)]])
    /\ Goto("snarea_thresh")
    /\ UNCHANGED <<fixed, fields, rasters, flow_acc_dem_factor, linear_unit,
                   calc_prism_jh_coef_flag>>

\* the minimum not subtracted
SnareaThreshOfElevation(dem_feet, elev_min) == RMul(dem_feet, SnareaScale)

\* line 506: '(!dem_feet! - elev_min) * 0.005'
SnareaThresh(dem_feet, elev_min) == RMul(RSub(dem_feet, elev_min), SnareaScale)

\* lines 500-507
CalcSnareaThresh ==
    /\ pc = "snarea_thresh"
    /\ LET elev_min == field_stat_min([c \in Cells |-> table[c].dem_feet])
       IN  table' = CalculateField(table, Cells,
             [c \in Cells |-> LET row == table[c] IN
                 [row EXCEPT !.snarea_thresh =
                     SnareaThresh(row.dem_feet, elev_min)]])
    /\ Goto("clear_lakes")
    /\ UNCHANGED <<fixed, fields, rasters, flow_acc_dem_factor, linear_unit,
                   calc_prism_jh_coef_flag>>

\* the ocean cells left out of the selection
ClearSlopeAspectOfLakes(tbl) ==
    CalculateField(tbl,
        SelectLayerByAttribute(tbl,
            [c \in Cells |-> tbl[c].hru_type = LakeType]),
        [c \in Cells |-> LET row == tbl[c] IN
            [row EXCEPT !.dem_aspect = Zero, !.dem_slope_deg = Zero,
                        !.dem_slope_rad = Zero, !.dem_slope_pct = NoTan]])

\* lines 516-527
ClearSlopeAspect(tbl) ==
    CalculateField(tbl,
        SelectLayerByAttribute(tbl,
            [c \in Cells |-> LET row == tbl[c] IN row.hru_type = LakeType
                         \/ (row.hru_type = OceanType /\ row.dem_adj = Zero)]),
        [c \in Cells |-> LET row == tbl[c] IN
            [row EXCEPT !.dem_aspect = Zero, !.dem_slope_deg = Zero,
                                 !.dem_slope_rad = Zero, !.dem_slope_pct = NoTan]])

\* the selection of lines 516-519 used again
ClearJHOfLakesToo(tbl) ==
    CalculateField(tbl,
        SelectLayerByAttribute(tbl,
            [c \in Cells |-> \/ tbl[c].hru_type = LakeType
                             \/ (tbl[c].hru_type = OceanType
                                 /\ tbl[c].dem_adj = Zero)]),
        [c \in Cells |-> LET row == tbl[c] IN
            [row EXCEPT !.jh_coef = NoJH, !.jh_tmax = Zero, !.jh_tmin = Zero]])

\* lines 539-548
ClearJH(tbl) ==
    CalculateField(tbl,
        SelectLayerByAttribute(tbl,
            [c \in Cells |-> LET row == tbl[c] IN
                row.hru_type = OceanType /\ row.dem_adj = Zero]),
        [c \in Cells |-> LET row == tbl[c] IN
            [row EXCEPT !.jh_coef = NoJH, !.jh_tmax = Zero,
                                 !.jh_tmin = Zero]])

\* lines 509-551
ClearLakes ==
    /\ pc = "clear_lakes"
    /\ IF TypeField \notin fields
       THEN Fail("ExecuteError") /\ UNCHANGED table
       ELSE Goto("done") /\ table' = ClearJH(ClearSlopeAspect(table))
    /\ UNCHANGED <<fixed, fields, rasters, flow_acc_dem_factor, linear_unit,
                   calc_prism_jh_coef_flag>>

RunSteps ==
    \/ ReadFactor
    \/ EstimateRatio
    \/ EstimateRound
    \/ CheckInputs
    \/ AddFields
    \/ CheckCopyField
    \/ ProjectDem
    \/ CheckUnit
    \/ DeriveRasters
    \/ ZonalStats
    \/ CalcDemFeet
    \/ CalcFlowAcc
    \/ FillDemAdj
    \/ CalcSlope
    \/ CalcJHTemps
    \/ CalcJHCoef
    \/ CalcSnareaThresh
    \/ ClearLakes

(***************************************************************************)
(* fishnet_generator.py.                                                   *)
(***************************************************************************)
Extent(x0, y0, x1, y1) == [XMin |-> x0, YMin |-> y0, XMax |-> x1, YMax |-> y1]

\* the buffer taken in map units instead of cells
BufferDistanceInUnits(buffer_cells, cs) == buffer_cells

\* line 138: the buffer distance
BufferDistance(buffer_cells, cs) == buffer_cells * cs

\* support.buffer_extent_func: the extent grown by d on its four sides
buffer_extent_func(e, d) ==
    Extent(e.XMin - d, e.YMin - d, e.XMax + d, e.YMax + d)

\* the lattice line of spacing cs through ref at or below v, at or above v
SnapDown(v, ref, cs) == ref + ((v - ref) \div cs) * cs
SnapUp(v, ref, cs) == ref - ((ref - v) \div cs) * cs

\* support.adjust_extent_to_snap: every edge moved outward to the lattice
adjust_extent_to_snap(e, ref_x, ref_y, cs) ==
    Extent(SnapDown(e.XMin, ref_x, cs), SnapDown(e.YMin, ref_y, cs),
           SnapUp(e.XMax, ref_x, cs), SnapUp(e.YMax, ref_y, cs))

\* lines 136-145: the extent fishnet_func hands to build_fishnet_func
FishnetExtent(study, h) ==
    adjust_extent_to_snap(
        buffer_extent_func(study, BufferDistance(h.buffer_cells, h.cs)),
        h.ref_x, h.ref_y, h.cs)

NewRow == FreshRow(0, ZeroTemps, ZeroTemps)

\* fishnet_func, with build_fishnet_func (lines 158-180): an existing cell
\* table is deleted and a new one with no parameter fields is created
FishnetFunc ==
    /\ pc \in {"idle", "done", "failed"}
    /\ hru_extent' = FishnetExtent(study_area_extent, hru)
    /\ polygon_exists' = TRUE
    /\ fields' = {}
    /\ table' = [c \in Cells |-> NewRow]
    /\ pc' = "idle"
    /\ UNCHANGED <<runs, cfg, world, hru, study_area_extent, rasters,
                   flow_acc_dem_factor, linear_unit, calc_prism_jh_coef_flag,
                   error, adj0, prev, soil_vars, written, reads>>

(***************************************************************************)
(* soil_raster_prep.py.                                                    *)
(***************************************************************************)
\* import statements of soil_raster_prep.py, with the names of
\* "from arcpy import env"
SoilImportedNames ==
    {"argparse", "ConfigParser", "dt", "logging", "os", "sys", "arcpy",
     "env", "support"}

SoilNames == {"awc", "clay_pct", "sand_pct", "ksat", "soil_depth"}
NoSoilRaster == [source |-> "", sr |-> "", source_sr |-> ""]
NoSoilRasters == [n \in SoilNames |-> NoSoilRaster]

SoilCfg(clip, fill, cs) ==
    [clip_root_depth_flag |-> clip, fill_soil_nodata_flag |-> fill,
     soil_cs |-> cs]
\* the source rasters in soil_orig_folder and their spatial references
SoilWorld(exists, sr) == [exists |-> exists, sr |-> sr]

\* support.project_raster_func: the output keeps the source it was made
\* from, the spatial reference given as that of the source and the one the
\* source has
ProjectSoilRaster(sw, source, sr_of) ==
    [source |-> source, sr |-> sw.sr[sr_of], source_sr |-> sw.sr[source]]

\* lines 159-255: the four projections; the Ksat raster is projected with
\* soil_orig_sr, which line 213 has left at the sand raster's
ProjectedSoilRasters(r, sw) ==
    [r EXCEPT !.awc = ProjectSoilRaster(sw, "awc", "awc"),
              !.clay_pct = ProjectSoilRaster(sw, "clay_pct", "clay_pct"),
              !.sand_pct = ProjectSoilRaster(sw, "sand_pct", "sand_pct"),
              !.ksat = ProjectSoilRaster(sw, "ksat", "sand_pct")]

\* lines 82-316: how the run ends and the rasters it leaves
SoilOutcome(sc, sw) ==
    IF ~polygon_exists THEN <<"fishnet does not exist", soil_rasters>>
    ELSE IF "awc" \notin sw.exists
    THEN <<"AWC raster does not exist", soil_rasters>>
    ELSE IF "clay_pct" \notin sw.exists
    THEN <<"Clay raster does not exist", soil_rasters>>
    ELSE IF "sand_pct" \notin sw.exists
    THEN <<"Sand raster does not exist", soil_rasters>>
    ELSE IF "ksat" \notin sw.exists
    THEN <<"Ksat raster does not exist", soil_rasters>>
    \* line 115 reads soil_depth_orig_path, a name that is never bound
    ELSE IF sc.clip_root_depth_flag THEN <<"NameError", soil_rasters>>
    ELSE IF sc.soil_cs <= 0
    THEN <<"soil cellsize must be greater than 0", soil_rasters>>
    \* line 312 calls Int and SetNull, names that are never bound
    ELSE IF sc.fill_soil_nodata_flag /\ "Int" \notin SoilImportedNames
    THEN <<"NameError", ProjectedSoilRasters(soil_rasters, sw)>>
    ELSE <<"", ProjectedSoilRasters(soil_rasters, sw)>>

\* soil_raster_prep: it reads the cell table's existence and writes rasters
SoilRasterPrep(sc, sw) ==
    /\ pc \in {"idle", "done", "failed"}
    /\ soil_cfg' = sc
    /\ soil_world' = sw
    /\ soil_error' = SoilOutcome(sc, sw)[1]
    /\ soil_rasters' = SoilOutcome(sc, sw)[2]
    /\ UNCHANGED <<run_vars, fishnet_vars>>

(***************************************************************************)
(* Inputs: configurations and the files a run finds.                       *)
(***************************************************************************)
Cfg(flow, factor, reset, prism, copy, cs, method) ==
    [calc_flow_acc_dem_flag |-> flow, flow_acc_dem_factor |-> factor,
     reset_dem_adj_flag |-> reset, calc_prism_jh_coef_flag |-> prism,
     dem_adj_copy_field |-> copy, dem_cs |-> cs,
     dem_projection_method |-> method]

World(dem, remap, unit, count, scene) ==
    [dem_exists |-> dem, remap_exists |-> remap, linear_unit |-> unit,
     point_count |-> count, scene |-> scene]

\* a scene with one pattern in the first cell and one in the others
SceneOf(a, b) == [c \in Cells |-> IF c = 1 THEN a ELSE b]
BaseScene == SceneOf(UniformCell(1), UniformCell(1))
BaseCfg == Cfg(FALSE, NoFactor, FALSE, FALSE, "dem_mean", 1, "BILINEAR")
BaseWorld == World(TRUE, TRUE, "FOOT", 2, BaseScene)

\* cell counts of a small, a large and a very large fishnet
PointCounts == {2, 4194304, 67108864}

\* elevation: reset flag, linear unit and the elevations of the DEM
ElevInputs ==
    {<<Cfg(FALSE, NoFactor, reset, FALSE, "dem_mean", 1, "BILINEAR"),
       World(TRUE, TRUE, unit, 2, SceneOf(UniformCell(e1), UniformCell(e2)))>> :
        reset \in BOOLEAN, unit \in linear_unit_list,
        e1 \in 0..MaxElev, e2 \in 0..MaxElev}

\* flow accumulation weighted elevation with a configured factor
FlowCellScenes == {UniformCell(0), UniformCell(1), RampCell, DryCell}
FlowInputs ==
    {<<Cfg(TRUE, f, FALSE, FALSE, "dem_mean", 1, "BILINEAR"),
       World(TRUE, TRUE, "FOOT", 2, SceneOf(a, b))>> :
        f \in {R(1), Rat(1, 10)},
        a \in FlowCellScenes, b \in FlowCellScenes}

\* no configured factor: the estimate
EstimateInputs ==
    {<<Cfg(TRUE, NoFactor, FALSE, FALSE, "dem_mean", cs, "BILINEAR"),
       World(TRUE, TRUE, "FOOT", n, BaseScene)>> :
        cs \in {0, 1, 2}, n \in PointCounts}

\* runs that a precondition stops
FailInputs ==
    {<<Cfg(FALSE, NoFactor, FALSE, FALSE, "dem_mean", 0, "BILINEAR"), BaseWorld>>,
     <<Cfg(FALSE, NoFactor, FALSE, FALSE, "dem_mean", 1, "LINEAR"), BaseWorld>>,
     <<Cfg(FALSE, NoFactor, FALSE, FALSE, "no_such_field", 1, "BILINEAR"), BaseWorld>>,
     <<BaseCfg, World(FALSE, TRUE, "FOOT", 2, BaseScene)>>,
     <<BaseCfg, World(TRUE, FALSE, "FOOT", 2, BaseScene)>>,
     <<BaseCfg, World(TRUE, TRUE, "DEGREE", 2, BaseScene)>>}

Inputs == ElevInputs \cup FlowInputs \cup EstimateInputs \cup FailInputs

\* observed temperatures: the flag, with the table of Init holding them
TempInputs ==
    {<<Cfg(FALSE, NoFactor, FALSE, prism, "dem_mean", 1, "BILINEAR"), BaseWorld>> :
        prism \in BOOLEAN}
    \cup {<<Cfg(TRUE, NoFactor, FALSE, FALSE, "dem_mean", 1, "BILINEAR"), BaseWorld>>}

(***************************************************************************)
(* Initial states and specifications.                                      *)
(***************************************************************************)
BaseHru == [cs |-> 2, ref_x |-> 0, ref_y |-> 0, buffer_cells |-> 0]
BaseStudy == Extent(0, 0, 2, 2)
BaseTable == [c \in Cells |-> FreshRow(LandType, ZeroTemps, ZeroTemps)]

InitRest ==
    /\ pc = "idle"
    /\ runs = 0
    /\ cfg = BaseCfg
    /\ world = BaseWorld
    /\ rasters = NoRasters
    /\ flow_acc_dem_factor = NoFactor
    /\ linear_unit = ""
    /\ calc_prism_jh_coef_flag = FALSE
    /\ error = ""
    /\ adj0 = [c \in Cells |-> table[c].dem_adj]
    /\ prev = [table |-> table, fields |-> fields, rasters |-> rasters,
               completed |-> FALSE, same_inputs |-> FALSE]
    /\ soil_rasters = NoSoilRasters
    /\ soil_error = ""
    /\ soil_cfg = SoilCfg(FALSE, FALSE, 0)
    /\ soil_world = SoilWorld({}, [n \in SoilNames |-> ""])
    /\ written = {}
    /\ reads = {}

\* a fishnet just built, with the cell types set and no DEM parameter yet
Init ==
    /\ hru = BaseHru
    /\ study_area_extent = BaseStudy
    /\ hru_extent = FishnetExtent(BaseStudy, BaseHru)
    /\ polygon_exists = TRUE
    /\ fields = {TypeField}
    /\ table = BaseTable
    /\ InitRest

Next ==
    \/ \E i \in Inputs : StartRun(i[1], i[2])
    \/ RunSteps

Spec == Init /\ [][Next]_vars

\* as Init, with the monthly PRISM temperatures in the table or not
InitTemp ==
    /\ hru = BaseHru
    /\ study_area_extent = BaseStudy
    /\ hru_extent = FishnetExtent(BaseStudy, BaseHru)
    /\ polygon_exists = TRUE
    /\ \/ /\ fields = {TypeField}
          /\ table = BaseTable
       \/ /\ fields = {TypeField} \cup PrismFields
          /\ \E t1 \in TempProfiles, t2 \in TempProfiles :
               table = [c \in Cells |->
                          IF c = 1 THEN FreshRow(LandType, t1[1], t1[2])
                          ELSE FreshRow(LandType, t2[1], t2[2])]
    /\ InitRest

NextTemp ==
    \/ \E i \in TempInputs : StartRun(i[1], i[2])
    \/ RunSteps

SpecTemp == InitTemp /\ [][NextTemp]_vars

\* the elevation fill alone: the reset flag and the elevations
ElevFillInputs ==
    {i \in ElevInputs : i[2].linear_unit = "FOOT"}
    \cup {<<Cfg(TRUE, NoFactor, FALSE, FALSE, "dem_mean", 1, "BILINEAR"), BaseWorld>>}

NextElev ==
    \/ \E i \in ElevFillInputs : StartRun(i[1], i[2])
    \/ RunSteps

SpecElev == Init /\ [][NextElev]_vars

\* the flow accumulation weighted elevation alone
NextFlow ==
    \/ \E i \in FlowInputs \cup {<<BaseCfg, BaseWorld>>}
                \cup {<<Cfg(TRUE, NoFactor, FALSE, FALSE, "dem_mean", 1, "BILINEAR"),
                       BaseWorld>>} :
          StartRun(i[1], i[2])
    \/ RunSteps

SpecFlow == Init /\ [][NextFlow]_vars

\* the runs that a precondition stops, among runs that complete
AbortInputs ==
    FailInputs
    \cup {<<BaseCfg, BaseWorld>>,
          <<BaseCfg, World(TRUE, TRUE, "METER", 2, SceneOf(RampCell, DryCell))>>,
          <<Cfg(TRUE, NoFactor, FALSE, FALSE, "dem_mean", 1, "BILINEAR"), BaseWorld>>}

NextAbort ==
    \/ \E i \in AbortInputs : StartRun(i[1], i[2])
    \/ RunSteps

SpecAbort == Init /\ [][NextAbort]_vars

\* the lake and ocean masking: a table with the cell types set, with or
\* without the monthly temperatures, and DEMs with sloping cells at
\* elevation 0 and above
ShoreCell == [p \in Pixels |-> Pix(0, 0, 2, 180)]
MaskCellScenes == {ShoreCell, DryCell}
HruTypes == {OceanType, LandType, LakeType}
MaskTemps == <<PeakTmax(6, 8), PeakTmin(6, 8, -1, 1)>>

MaskInputs ==
    {<<Cfg(FALSE, NoFactor, FALSE, prism, "dem_mean", 1, "BILINEAR"),
       World(TRUE, TRUE, "FOOT", 2, SceneOf(a, b))>> :
        prism \in BOOLEAN, a \in MaskCellScenes, b \in MaskCellScenes}
    \cup {<<Cfg(TRUE, NoFactor, FALSE, FALSE, "dem_mean", 1, "BILINEAR"), BaseWorld>>}

InitMask ==
    /\ hru = BaseHru
    /\ study_area_extent = BaseStudy
    /\ hru_extent = FishnetExtent(BaseStudy, BaseHru)
    /\ polygon_exists = TRUE
    /\ \E t1 \in HruTypes, t2 \in HruTypes :
          \/ /\ fields = {TypeField}
             /\ table = [c \in Cells |->
                           FreshRow(IF c = 1 THEN t1 ELSE t2, ZeroTemps, ZeroTemps)]
          \/ /\ fields = {TypeField} \cup PrismFields
             /\ table = [c \in Cells |->
                           FreshRow(IF c = 1 THEN t1 ELSE t2,
                                    MaskTemps[1], MaskTemps[2])]
    /\ InitRest

NextMask ==
    \/ \E i \in MaskInputs : StartRun(i[1], i[2])
    \/ RunSteps

SpecMask == InitMask /\ [][NextMask]_vars

\* the three scripts run one after the other in any order, on a project
\* with no cell table yet or with one whose cell types are set
PipelineInputs ==
    {<<BaseCfg, BaseWorld>>,
     <<Cfg(TRUE, R(1), FALSE, FALSE, "dem_mean", 1, "BILINEAR"),
       World(TRUE, TRUE, "FOOT", 2, SceneOf(RampCell, DryCell))>>,
     <<Cfg(TRUE, NoFactor, FALSE, FALSE, "dem_mean", 1, "BILINEAR"), BaseWorld>>}

AllSoilRasters == SoilNames
OneSR == [n \in SoilNames |-> "NAD83"]
KsatSR == [n \in SoilNames |-> IF n = "ksat" THEN "WGS84" ELSE "NAD83"]
SoilInputs ==
    {<<SoilCfg(clip, fill, cs), SoilWorld(ex, sr)>> :
        clip \in BOOLEAN, fill \in BOOLEAN, cs \in {0, 1},
        ex \in {AllSoilRasters, AllSoilRasters \ {"ksat"}},
        sr \in {OneSR, KsatSR}}

InitPipeline ==
    /\ hru = BaseHru
    /\ study_area_extent = BaseStudy
    /\ hru_extent = Extent(0, 0, 0, 0)
    /\ polygon_exists \in BOOLEAN
    /\ fields = IF polygon_exists THEN {TypeField} ELSE {}
    /\ table = IF polygon_exists THEN BaseTable ELSE [c \in Cells |-> NewRow]
    /\ InitRest

NextPipeline ==
    \/ FishnetFunc
    \/ \E i \in PipelineInputs : StartRun(i[1], i[2])
    \/ RunSteps
    \/ \E i \in SoilInputs : SoilRasterPrep(i[1], i[2])

SpecPipeline == InitPipeline /\ [][NextPipeline]_vars

\* the fishnet generator over study areas, reference points and cell sizes
Coords == (0 - MaxCoord)..MaxCoord

InitFishnet ==
    /\ \E cs \in 1..MaxCellSize, b \in 0..MaxBufferCells,
          rx \in {-1, 0, 1}, ry \in {0, 1} :
          hru = [cs |-> cs, ref_x |-> rx, ref_y |-> ry, buffer_cells |-> b]
    /\ \E x0 \in Coords, x1 \in Coords, y0 \in {0}, y1 \in 1..MaxCoord :
          /\ x0 < x1
          /\ study_area_extent = Extent(x0, y0, x1, y1)
    /\ hru_extent = Extent(0, 0, 0, 0)
    /\ polygon_exists \in BOOLEAN
    /\ fields = IF polygon_exists THEN {TypeField} ELSE {}
    /\ table = IF polygon_exists THEN BaseTable ELSE [c \in Cells |-> NewRow]
    /\ InitRest

NextFishnet == FishnetFunc

SpecFishnet == InitFishnet /\ [][NextFishnet]_vars

(***************************************************************************)
(* The scale factor estimate (lines 75-100).                               *)
(***************************************************************************)
\* the run asked for the estimate with positive inputs and is past it
EstimateAsked ==
    /\ runs > 0
    /\ cfg.calc_flow_acc_dem_flag
    /\ cfg.flow_acc_dem_factor = NoFactor
    /\ world.point_count > 0 /\ hru.cs > 0 /\ cfg.dem_cs > 0
    /\ pc \notin {"idle", "factor", "estimate", "round"}

IsNegativePowerOfTen(f) == f[1] = 1 /\ \E k \in 1..9 : f[2] = Pow10(k)

\* C1: for positive cell count and cell sizes the estimate yields a factor
\* with worstCaseProduct x factor < 0.5 x 2^32, that is ratio x factor < 1
C1_OverflowSafe ==
    EstimateAsked =>
        /\ error # "NameError"
        /\ RLess(RMul(WorstCaseRatio(world.point_count, hru.cs, cfg.dem_cs),
                      flow_acc_dem_factor), R(1))

\* C2: for positive cell count and cell sizes the estimate yields a factor
\* that is at most 0.1 and is 10^-k for an integer k >= 1
C2_NegativePowerOfTen ==
    EstimateAsked =>
        /\ error # "NameError"
        /\ RLeq(flow_acc_dem_factor, Rat(1, 10))
        /\ IsNegativePowerOfTen(flow_acc_dem_factor)

(***************************************************************************)
(* The extent of the fishnet (fishnet_func, lines 136-152).                *)
(***************************************************************************)
NoExtent == Extent(0, 0, 0, 0)

\* the study extent grown by buffer_cells x cell size
BufferedStudy ==
    Extent(study_area_extent.XMin - hru.buffer_cells * hru.cs,
           study_area_extent.YMin - hru.buffer_cells * hru.cs,
           study_area_extent.XMax + hru.buffer_cells * hru.cs,
           study_area_extent.YMax + hru.buffer_cells * hru.cs)

Covers(a, b) ==
    /\ a.XMin <= b.XMin /\ a.YMin <= b.YMin
    /\ a.XMax >= b.XMax /\ a.YMax >= b.YMax

\* C3: the extent handed to build_fishnet_func covers the buffered study
\* extent, its lower left corner is a whole number of cells from the
\* reference point and its width and height are whole numbers of cells
C3_SnappedExtent ==
    hru_extent # NoExtent =>
        /\ Covers(hru_extent, BufferedStudy)
        /\ (hru_extent.XMin - hru.ref_x) % hru.cs = 0
        /\ (hru_extent.YMin - hru.ref_y) % hru.cs = 0
        /\ (hru_extent.XMax - hru_extent.XMin) % hru.cs = 0
        /\ (hru_extent.YMax - hru_extent.YMin) % hru.cs = 0

\* a fishnet built with a buffer, where the snap moved every edge
C3_Witness ==
    /\ hru_extent # NoExtent
    /\ hru.buffer_cells > 0
    /\ hru_extent.XMin < BufferedStudy.XMin
    /\ hru_extent.YMin < BufferedStudy.YMin
    /\ hru_extent.XMax > BufferedStudy.XMax
    /\ hru_extent.YMax > BufferedStudy.YMax

(***************************************************************************)
(* The elevation fill (lines 430-447) and the elevation in feet.           *)
(***************************************************************************)
BeforeFill ==
    {"idle", "factor", "estimate", "round", "check_inputs", "add_fields",
     "check_copy_field", "project", "check_unit", "derive", "flow_dir",
     "flow_acc", "flow_acc_dem", "dem_integer", "dem_slope", "dem_aspect",
     "aspect_reclass", "temp_adj", "zonal_stats", "dem_feet", "flowacc",
     "fill_dem_adj"}
AfterFill ==
    {"slope", "jh_temps", "jh_coef", "snarea_thresh", "clear_lakes", "done"}

\* dem_adj was zero in every cell when the run started, or the reset is set
FillCondition ==
    (\A c \in Cells : adj0[c] = Zero) \/ cfg.reset_dem_adj_flag
DemAdjUnchanged == \A c \in Cells : table[c].dem_adj = adj0[c]

\* C4: once the fill step has run, dem_adj holds the values of the copy
\* field if dem_adj was zero in every cell or the reset flag is set; in
\* every other run, and before the fill step, dem_adj is as the run found it
C4_FillExactlyWhen ==
    /\ (pc \in AfterFill /\ FillCondition) =>
          \A c \in Cells :
              table[c].dem_adj = FieldValue(table[c], cfg.dem_adj_copy_field)
    /\ (pc \in BeforeFill \/ ~FillCondition) => DemAdjUnchanged

\* a completed run that found a non-zero dem_adj, had no reset and left it,
\* although the copy field holds other values
C4_Witness ==
    /\ pc = "done"
    /\ ~FillCondition
    /\ \E c \in Cells : adj0[c] # Zero /\ table[c].dem_mean # adj0[c]
    /\ DemAdjUnchanged

\* C5 as claimed: a run without the reset flag that follows a completed run
\* leaves dem_adj as it found it
C5_RerunKeepsDemAdj ==
    (runs >= 2 /\ prev.completed /\ ~cfg.reset_dem_adj_flag) => DemAdjUnchanged

\* C5 amended: a run without the reset flag that follows a completed run
\* whose fill left dem_adj non-zero in some cell leaves dem_adj as it found
\* it, whatever the copy field holds in the later run
C5_RerunKeepsNonZeroDemAdj ==
    (/\ runs >= 2 /\ prev.completed /\ ~cfg.reset_dem_adj_flag
     /\ \E c \in Cells : adj0[c] # Zero)
    => DemAdjUnchanged

\* a second run after a fill, with a zero cell, and a copy field that
\* changed in every cell
C5_Witness ==
    /\ runs >= 2 /\ prev.completed /\ ~cfg.reset_dem_adj_flag
    /\ pc = "done"
    /\ \E c \in Cells : adj0[c] # Zero
    /\ \E c \in Cells : adj0[c] = Zero
    /\ \A c \in Cells : table[c].dem_mean # adj0[c]
    /\ DemAdjUnchanged

\* C6: the second of two runs with the same configuration and the same
\* rasters, the first on a new cell table, changes no field of any cell
C6_SecondRunChangesNothing ==
    (/\ runs = 2 /\ pc = "done" /\ prev.completed /\ prev.same_inputs
     /\ ~cfg.reset_dem_adj_flag)
    => table = prev.table

\* C7: once the elevation in feet is written, dem_feet is dem_adj x 3.28084
\* for meters and dem_adj for feet
C7_DemFeetConverted ==
    pc = "flowacc" =>
        \A c \in Cells :
            table[c].dem_feet =
                IF linear_unit = "METER"
                THEN RMul(table[c].dem_adj, FeetPerMeter)
                ELSE table[c].dem_adj

(***************************************************************************)
(* The Jensen-Haise temperatures (lines 468-495).                          *)
(***************************************************************************)
MaxTmaxMonths(row) ==
    {m \in Months : \A k \in Months : row.tmax[k] <= row.tmax[m]}
FirstOf(S) == CHOOSE m \in S : \A k \in S : m <= k

ObservedUsable ==
    /\ cfg.calc_prism_jh_coef_flag
    /\ "TMAX" \in fields
    /\ \E c \in Cells :
          /\ table[c].tmax[JulyMonth] # 0
          /\ \A d \in Cells : table[d].tmax[JulyMonth] <= table[c].tmax[JulyMonth]

\* C9: the temperature step uses the observed temperatures only if they
\* are usable; in every other case it goes on to the coefficient step with
\* jh_tmax = 25 and jh_tmin = 7 in every cell
C9_DefaultTemperatures ==
    [][pc = "jh_temps" =>
          /\ calc_prism_jh_coef_flag' => ObservedUsable
          /\ ~ObservedUsable =>
                /\ pc' = "jh_coef"
                /\ \A c \in Cells :
                      /\ table'[c].jh_tmax = R(DefaultTmax)
                      /\ table'[c].jh_tmin = R(DefaultTmin)]_vars

\* the flag is set and TMAX_07 is there, its maximum is 0 although one
\* cell has a July TMAX below zero, and the defaults were written
C9_Witness ==
    /\ pc = "jh_coef"
    /\ cfg.calc_prism_jh_coef_flag /\ "TMAX" \in fields
    /\ ~ObservedUsable
    /\ \E c \in Cells : table[c].tmax[JulyMonth] # 0
    /\ \A c \in Cells :
          table[c].jh_tmax = R(DefaultTmax) /\ table[c].jh_tmin = R(DefaultTmin)

(***************************************************************************)
(* The flow accumulation weighted elevation (lines 405-426).               *)
(***************************************************************************)
AfterFlowAcc == {"fill_dem_adj"} \cup AfterFill

\* C10: after the step a cell with dem_count = 0 or dem_sum = 0 has
\* dem_flowacc = 0, and a cell with dem_count > 0 and a non-zero dem_sum has
\* dem_flowacc = dem_sum / dem_count
C10_FlowAccMasked ==
    (pc \in AfterFlowAcc /\ cfg.calc_flow_acc_dem_flag) =>
        \A c \in Cells :
            /\ (table[c].dem_count = Zero \/ table[c].dem_sum = Zero)
                  => table[c].dem_flowacc = Zero
            /\ (RLess(Zero, table[c].dem_count) /\ table[c].dem_sum # Zero)
                  => RMul(table[c].dem_flowacc, table[c].dem_count)
                       = table[c].dem_sum

\* the step cleared a cell that had a dem_flowacc from the run before, and
\* another cell has the quotient of a non-zero sum
C10_Witness ==
    /\ pc = "fill_dem_adj" /\ cfg.calc_flow_acc_dem_flag
    /\ \E c \in Cells :
          /\ table[c].dem_count = Zero
          /\ prev.table[c].dem_flowacc # Zero
          /\ table[c].dem_flowacc = Zero
    /\ \E c \in Cells :
          /\ RLess(Zero, table[c].dem_count)
          /\ table[c].dem_flowacc # Zero

(***************************************************************************)
(* The slope and aspect rasters (lines 323-340).                           *)
(***************************************************************************)
AfterDerive == {"zonal_stats", "dem_feet", "flowacc"} \cup AfterFlowAcc

\* the slope and the aspect the engine computes at pixel p of cell c
ComputedSlope(c, p) == Rat(world.scene[c][p].slope, 100)
ComputedAspect(c, p) == R(world.scene[c][p].aspect)

\* C11: in the rasters of a run, a pixel whose computed slope is <= 0.01
\* has slope 0 and aspect -1, and a pixel whose computed slope is > 0.01
\* has its computed slope and its computed aspect
C11_SlopeClamp ==
    pc \in AfterDerive =>
        \A c \in Cells, p \in Pixels :
            IF RLeq(ComputedSlope(c, p), Rat(1, 100))
            THEN /\ rasters.dem_slope[c][p] = Zero
                 /\ rasters.dem_aspect[c][p] = R(-1)
            ELSE /\ rasters.dem_slope[c][p] = ComputedSlope(c, p)
                 /\ rasters.dem_aspect[c][p] = ComputedAspect(c, p)

\* the rasters of a scene with a pixel of slope exactly 0.01 and an aspect
\* of its own, and a steeper pixel
C11_Witness ==
    /\ pc = "zonal_stats"
    /\ \E c \in Cells, p \in Pixels :
          /\ ComputedSlope(c, p) = Rat(1, 100)
          /\ ComputedAspect(c, p) # R(-1)
          /\ rasters.dem_slope[c][p] = Zero
          /\ rasters.dem_aspect[c][p] = R(-1)
    /\ \E c \in Cells, p \in Pixels :
          /\ RLess(Rat(1, 100), ComputedSlope(c, p))
          /\ rasters.dem_slope[c][p] # Zero

(***************************************************************************)
(* The lake and ocean masking (lines 509-551).                             *)
(***************************************************************************)
IsLake(row) == row.hru_type = 2
IsOceanAtZero(row) == row.hru_type = 0 /\ row.dem_adj = Zero

\* C12: at the end of a run a lake cell, and an ocean cell with dem_adj = 0,
\* has aspect class, slope in degrees, in radians and in percent equal to 0
C12_LakeSlopeCleared ==
    pc = "done" =>
        \A c \in Cells :
            (IsLake(table[c]) \/ IsOceanAtZero(table[c])) =>
                /\ table[c].dem_aspect = Zero
                /\ table[c].dem_slope_deg = Zero
                /\ table[c].dem_slope_rad = Zero
                /\ table[c].dem_slope_pct = <<"tan", Zero>>

\* a run ended with an ocean cell at elevation 0 cleared although the zonal
\* statistics gave it a slope, and a cell that is not masked keeps a slope
C12_Witness ==
    /\ pc = "done"
    /\ \E c \in Cells :
          /\ IsOceanAtZero(table[c])
          /\ ZonalMean(rasters.dem_slope, c) # Zero
          /\ table[c].dem_slope_deg = Zero
          /\ table[c].dem_aspect = Zero
    /\ \E c \in Cells :
          /\ ~IsLake(table[c]) /\ ~IsOceanAtZero(table[c])
          /\ table[c].dem_slope_deg # Zero

\* what the Jensen-Haise step of the run gives for a row
ComputedJHTmax(row) ==
    IF calc_prism_jh_coef_flag THEN R(TmaxExpr(row)) ELSE R(25)
ComputedJHTmin(row) ==
    IF calc_prism_jh_coef_flag THEN R(TminExpr(row)) ELSE R(7)

\* C13: at the end of a run an ocean cell with dem_adj = 0 has jh_coef,
\* jh_tmax and jh_tmin equal to 0, and every other cell, a lake cell too, has
\* the jh_coef, jh_tmax and jh_tmin of the Jensen-Haise step
C13_OceanJHCleared ==
    pc = "done" =>
        \A c \in Cells :
            IF IsOceanAtZero(table[c])
            THEN /\ table[c].jh_coef = NoJH
                 /\ table[c].jh_tmax = Zero
                 /\ table[c].jh_tmin = Zero
            ELSE /\ table[c].jh_tmax = ComputedJHTmax(table[c])
                 /\ table[c].jh_tmin = ComputedJHTmin(table[c])
                 /\ table[c].jh_coef =
                       jensen_haise_func(table[c].dem_feet, table[c].jh_tmin,
                                         table[c].jh_tmax)

\* a run ended with an ocean cell at elevation 0 and a lake cell at
\* elevation 0: the first has no Jensen-Haise values, the second has them
C13_Witness ==
    /\ pc = "done"
    /\ \E c \in Cells :
          IsOceanAtZero(table[c]) /\ table[c].jh_tmax = Zero
    /\ \E c \in Cells :
          /\ IsLake(table[c]) /\ table[c].dem_adj = Zero
          /\ table[c].jh_tmax # Zero
          /\ table[c].jh_coef # NoJH

PreconditionErrors ==
    {"fishnet does not exist", "DEM raster does not exist",
     "remap folder does not exist", "DEM cellsize must be greater than 0",
     "DEM projection method", "dem_adj_copy_field does not exist",
     "linear unit must be meters or feet"}

NothingWritten ==
    /\ table = prev.table
    /\ fields = prev.fields
    /\ rasters = prev.rasters

\* C15: a run that a precondition failure has stopped has written nothing
\* to the cell table and no scratch raster
C15_FailsBeforeWriting ==
    (pc = "failed" /\ error \in PreconditionErrors) => NothingWritten

(***************************************************************************)
(* The linear unit check (lines 278-288).                                  *)
(***************************************************************************)
UnitsOfLength == {"METER", "FOOT_US", "FOOT"}
DeriveStages ==
    {"derive", "flow_dir", "flow_acc", "flow_acc_dem", "dem_integer",
     "dem_slope", "dem_aspect", "aspect_reclass", "temp_adj"}
LaterStages == DeriveStages \cup AfterDerive
LaterRasters ==
    {"dem_fill", "flow_dir", "flow_acc", "flow_acc_filter", "flow_acc_x_dem",
     "dem_integer", "dem_slope", "dem_aspect", "aspect_reclass", "temp_adj"}

\* C16: a run on a projected DEM whose linear unit is not meters or feet
\* never is in a stage after the unit check: it writes none of the rasters
\* of these stages and nothing to the cells of the table
C16_NoStageAfterUnitAbort ==
    (runs > 0 /\ world.linear_unit \notin UnitsOfLength) =>
        /\ pc \notin LaterStages
        /\ table = prev.table
        /\ \A name \in LaterRasters : rasters[name] = prev.rasters[name]

\* a second run, after a completed one, that the unit check has stopped
C16_Witness ==
    /\ runs = 2 /\ prev.completed
    /\ world.linear_unit = "DEGREE"
    /\ pc = "failed" /\ error = "linear unit must be meters or feet"
    /\ rasters.dem_fill # NoRaster

(***************************************************************************)
(* The fields of the cell table.                                           *)
(***************************************************************************)
ZonalPcs == {"zonal_stats", "dem_feet", "flowacc", "fill_dem_adj", "slope"}
FormulaPcs == ZonalPcs \cup {"jh_temps", "jh_coef", "snarea_thresh", "clear_lakes"}

\* C17: when a run is about to execute the zonal statistics or a per-cell
\* formula, the fields the step uses are in the table: the DEM fields, the
\* flow accumulation fields if asked for, the copy field at the fill, the
\* monthly temperatures if they are used, the cell type at the masking
C17_FieldsExist ==
    /\ pc \in FormulaPcs =>
          /\ DemFields \subseteq fields
          /\ cfg.calc_flow_acc_dem_flag => FlowAccFields \subseteq fields
    /\ pc = "fill_dem_adj" => cfg.dem_adj_copy_field \in fields
    /\ (pc = "jh_temps" /\ UsesPrism(calc_prism_jh_coef_flag, fields, table))
          => PrismFields \subseteq fields
    /\ pc = "clear_lakes" => TypeField \in fields

\* C18: the estimate is made only in a run that asks for the weighted
\* elevation and has no configured factor; a configured factor is the one
\* the rasters are scaled with; and a run with no configured factor goes on
\* to the raster stages with the estimate
C18_EstimateOnlyWhenNeeded ==
    /\ pc \in {"estimate", "round"} =>
          cfg.calc_flow_acc_dem_flag /\ cfg.flow_acc_dem_factor = NoFactor
    /\ (cfg.calc_flow_acc_dem_flag /\ cfg.flow_acc_dem_factor # NoFactor) =>
          /\ pc \in {"check_inputs"} \cup LaterStages =>
                flow_acc_dem_factor = cfg.flow_acc_dem_factor
          /\ pc \in AfterDerive =>
                \A c \in Cells, p \in Pixels :
                    rasters.flow_acc_filter[c][p] =
                        RMul(R(world.scene[c][p].facc), cfg.flow_acc_dem_factor)
    /\ (/\ runs > 0 /\ cfg.calc_flow_acc_dem_flag
        /\ cfg.flow_acc_dem_factor = NoFactor
        /\ world.point_count > 0 /\ hru.cs > 0 /\ cfg.dem_cs > 0
        /\ polygon_exists) =>
          /\ pc # "failed"
          /\ pc \in {"check_inputs"} \cup LaterStages =>
                RLess(Zero, flow_acc_dem_factor)

\* C19: in a run that has to estimate the factor with a DEM cell size <= 0
\* the estimate is not made: the run stops at the cell size check with no
\* factor
C19_CellSizeRejectedFirst ==
    (/\ runs > 0 /\ cfg.calc_flow_acc_dem_flag
     /\ cfg.flow_acc_dem_factor = NoFactor
     /\ cfg.dem_cs <= 0
     /\ pc \notin {"idle", "factor", "estimate", "check_inputs"}) =>
        /\ pc = "failed"
        /\ error = "DEM cellsize must be greater than 0"
        /\ flow_acc_dem_factor = NoFactor

\* C20: no step of any of the three scripts takes a field out of the cell
\* table, deletes the table or sets the cell values back
C20_NothingDeleted ==
    [][polygon_exists =>
          /\ polygon_exists'
          /\ fields \subseteq fields']_vars

(***************************************************************************)
(* The rounding of the estimate against floor(log10) (lines 83-96).        *)
(***************************************************************************)
\* -floor(log10(r)) for 0 < r < 1: the least k with 10^k x r >= 1
RECURSIVE NegFloorLog10(_)
NegFloorLog10(r) ==
    IF RLeq(R(1), r) THEN 0 ELSE 1 + NegFloorLog10(RMul(r, R(10)))

\* 1 / 10^(floor(log10(r)) + 1)
FloorFactor(r) == R(Pow10(NegFloorLog10(r) - 1))

\* cellCount x (hruCellSize / demCellSize)^2 x 100 / (0.5 x 2^32), capped
\* by min(., 0.1); 2^31 is divided out as 2^16 and 2^15, and 100 / 2^15 as
\* 25 / 2^13
CappedRawFactor ==
    LET q == RDiv(R(hru.cs), R(cfg.dem_cs))
        n == RDiv(R(world.point_count), R(65536))
    IN  RMin(RMul(RMul(n, Rat(25, 8192)), RMul(q, q)), Rat(1, 10))

\* C21: for positive cell count and cell sizes the estimate yields the
\* factor 1 / 10^(floor(log10(r)) + 1) with r = min(rawFactor, 0.1), and
\* the integer conversion of log10(r) at line 96 is floor(log10(r))
C21_FactorIsFloorFormula ==
    /\ EstimateAsked =>
          /\ error # "NameError"
          /\ flow_acc_dem_factor = FloorFactor(CappedRawFactor)
    /\ (pc = "round" /\ RLess(Zero, flow_acc_dem_factor)) =>
          /\ flow_acc_dem_factor = CappedRawFactor
          /\ NegIntLog10(flow_acc_dem_factor)
                = NegFloorLog10(flow_acc_dem_factor)

(***************************************************************************)
(* The order of the raster steps (lines 102-111, 250-382).                 *)
(***************************************************************************)
\* the place of a surface in project -> fill -> flow direction -> flow
\* accumulation -> filtered and weighted accumulation -> slope -> aspect ->
\* aspect reclass -> temperature adjustment
SurfaceOrder ==
    <<{"dem"}, {"dem_fill"}, {"flow_dir"}, {"flow_acc"},
      {"flow_acc_filter", "flow_acc_x_dem"}, {"dem_slope"}, {"dem_aspect"},
      {"aspect_reclass"}, {"temp_adj"}>>
OrderedSurfaces == UNION {SurfaceOrder[i] : i \in DOMAIN SurfaceOrder}
PlaceOf(name) == CHOOSE i \in DOMAIN SurfaceOrder : name \in SurfaceOrder[i]

\* the step about to be taken is the zonal statistics
ZonalStep == pc = "zonal_stats" /\ pc' = "dem_feet"

\* what lines 290-360 make of the projected DEM alone
FreshRasters ==
    DerivedRasters([NoRasters EXCEPT !.dem = rasters.dem], world.scene,
                   cfg.calc_flow_acc_dem_flag, flow_acc_dem_factor)

\* C22: every raster step and the zonal statistics open only surfaces the
\* same run has saved before; the surfaces are saved in the order project,
\* fill, flow direction, flow accumulation, filtered and weighted
\* accumulation, slope, aspect, aspect reclass, temperature adjustment, all
\* before the zonal statistics; flow accumulation and the weighted surface
\* are saved only in a run that saved the flow direction; and the zonal
\* statistics take the weighted and the filtered surface (the sum and the
\* count) exactly when the run saved the weighted surface
C22_StepsReadEarlierSurfaces ==
    /\ [][/\ reads' \subseteq written
          /\ \A n \in (written' \ written) \cap OrderedSurfaces :
                \A m \in written \cap OrderedSurfaces :
                    PlaceOf(m) < PlaceOf(n)
          /\ ZonalStep =>
                /\ {"dem", "dem_fill", "dem_slope", "dem_aspect",
                    "aspect_reclass", "temp_adj"} \subseteq written
                /\ "flow_acc_x_dem" \in reads' <=> "flow_acc_x_dem" \in written
                /\ "flow_acc_filter" \in reads' <=> "flow_acc_x_dem" \in written
                /\ \A name \in written : rasters[name] = FreshRasters[name]
         ]_vars
    /\ [](/\ "flow_acc" \in written => "flow_dir" \in written
          /\ "flow_acc_x_dem" \in written => {"flow_dir", "flow_acc"} \subseteq written
          /\ "flow_acc_filter" \in written <=> "flow_acc_x_dem" \in written)

\* a second run that weights the elevation, past its zonal statistics, on
\* scratch rasters of a completed run that had another flow accumulation
C22_Witness ==
    /\ runs = 2 /\ prev.completed
    /\ cfg.calc_flow_acc_dem_flag
    /\ pc = "dem_feet"
    /\ {"flow_acc_x_dem", "flow_acc_filter"} \subseteq reads
    /\ prev.rasters.flow_acc # NoRaster
    /\ prev.rasters.flow_acc # rasters.flow_acc
    /\ prev.rasters.dem_slope # rasters.dem_slope

(***************************************************************************)
(* The elevation in feet against the filled dem_adj (lines 391-507).       *)
(***************************************************************************)
\* the elevation in feet of a dem_adj in the linear unit of the DEM
FeetOf(dem_adj, unit) ==
    IF unit = "METER" THEN RMul(dem_adj, Rat(328084, 100000)) ELSE dem_adj

\* C23: when a run is done, in every cell dem_feet is the conversion to
\* feet of the dem_adj the cell then has, and jh_coef and snarea_thresh are
\* the Jensen-Haise coefficient and (dem_feet - least dem_feet) x 0.005 of
\* that elevation in feet
C23_DemFeetOfFinalDemAdj ==
    pc = "done" =>
        LET feet == [c \in Cells |-> FeetOf(table[c].dem_adj, linear_unit)]
        IN  \A c \in Cells :
              /\ table[c].dem_feet = feet[c]
              /\ ~IsOceanAtZero(table[c]) =>
                    table[c].jh_coef =
                        jensen_haise_func(feet[c], table[c].jh_tmin,
                                          table[c].jh_tmax)
              /\ \E d \in Cells :
                    /\ \A x \in Cells : RLeq(feet[d], feet[x])
                    /\ table[c].snarea_thresh =
                          RMul(RSub(feet[c], feet[d]), Rat(5, 1000))

(***************************************************************************)
(* The scale factor in the weighted elevation (lines 307-316, 366-368,     *)
(* 405-418).                                                               *)
(***************************************************************************)
\* the elevations of cell c weighted by its filtered flow accumulation,
\* with no scaling
WeightedElevation(c) ==
    RDiv(ZonalSum(RasterTimes(PixelRaster(world.scene, "elev"),
                              PixelRaster(world.scene, "facc")), c),
         ZonalSum(PixelRaster(world.scene, "facc"), c))

SoilMissingErrors ==
    {"fishnet does not exist", "AWC raster does not exist",
     "Clay raster does not exist", "Sand raster does not exist",
     "Ksat raster does not exist", "Soil depth raster does not exist"}
SoilPreconditionErrors ==
    SoilMissingErrors \cup {"soil cellsize must be greater than 0"}

\* the rasters the last soil_raster_prep run had to project
RequiredSoilRasters ==
    {"awc", "clay_pct", "sand_pct", "ksat"}
    \cup IF soil_cfg.clip_root_depth_flag THEN {"soil_depth"} ELSE {}

\* the last soil_raster_prep run got past its checks
SoilRunProjected ==
    /\ soil_world.exists # {}
    /\ soil_error \notin SoilPreconditionErrors

\* C25: every projected soil raster was projected with the spatial
\* reference of its own source; a run that gets past its checks leaves
\* every raster it has to project, the soil depth with clip_root_depth_flag
\* included, as the projection of the source that run found, nothing of an
\* earlier output being kept; and a run that misses a source raster it
\* needs projects nothing
C25_SoilProjectedWithOwnSR ==
    /\ [](/\ \A n \in SoilNames :
                soil_rasters[n] # NoSoilRaster =>
                    /\ soil_rasters[n].source = n
                    /\ soil_rasters[n].sr = soil_rasters[n].source_sr
          /\ SoilRunProjected =>
                \A n \in RequiredSoilRasters :
                    /\ soil_rasters[n].source = n
                    /\ soil_rasters[n].source_sr = soil_world.sr[n])
    /\ [][~(RequiredSoilRasters' \subseteq soil_world'.exists)
              => soil_rasters' = soil_rasters]_vars

====
